---- MODULE Spec2Model ----
(* Model of main.py, the rclone backup CLI: the change classifier of        *)
(* scan_changes, the configuration store, the binary locator, the command   *)
(* runner and the menu loop.                                                *)
EXTENDS Integers, Sequences, FiniteSets, TLC

\* ------------------------------------------------------------------------
\* Bounds and sample data
\* ------------------------------------------------------------------------
MaxLen == 2

Paths == {"a.txt", "b.txt"}
Sizes == {10, 20}
ModTimes == {"T1", "T2"}

\* Python's None where a dictionary or a result object is expected.
None == [none |-> TRUE]

\* One object of an lsjson array (Path, Size, ModTime).
Items == [Path : Paths, Size : Sizes, ModTime : ModTimes]

SeqsUpTo(S, n) == UNION {[1..k -> S] : k \in 0..n}

\* Every lsjson output of at most MaxLen objects, duplicate paths included.
Listings == SeqsUpTo(Items, MaxLen)

\* Length of the listings the remote and the destination hold in the menu
\* machine.
MaxFiles == 1

\* The contents a source or a destination can have in the menu machine.
Contents == SeqsUpTo([Path : Paths, Size : Sizes, ModTime : {"T1"}], MaxFiles)

\* The backup a previous run left in the destination.
OldBackup == <<[Path |-> "a.txt", Size |-> 10, ModTime |-> "T1"]>>

VARIABLES
    pc,           \* position of the program in main_menu and its callees
    choice,       \* the menu choice being served
    cfgFile,      \* config.json: None when absent, else the stored object
    system,       \* platform.system() of the host, as characters
    machine,      \* platform.machine() of the host, as characters
    inPath,       \* shutil.which('rclone') finds an executable
    localBin,     \* rclone_bin/ holds an rclone executable
    remote,       \* files of the source remote
    dest_files,   \* files of the destination directory
    destExists,   \* os.path.exists(destination)
    dest,         \* local variable dest of scan_changes / apply_changes
    drive_files,  \* scan_changes: parsed remote listing
    local_files,  \* scan_changes: parsed local listing
    changes,      \* result of scan_changes held by main_menu
    log,          \* what the last step has done, in order
    hist          \* summary of the earlier steps of the current menu action

vars == <<pc, choice, cfgFile, system, machine, inPath, localBin, remote, dest_files, destExists,
          dest, drive_files, local_files, changes, log, hist>>

envVars == <<system, machine, inPath, remote, dest_files, destExists>>
scanVars == <<drive_files, local_files, changes>>

\* ------------------------------------------------------------------------
\* scan_changes, step 3: compare and categorize (main.py 578-635)
\* ------------------------------------------------------------------------

\* dict assignment d[item['Path']] = item: a key keeps the position of its
\* first insertion and takes the value of the last one.
dict_set(d, item) ==
    IF \E i \in DOMAIN d : d[i].Path = item.Path
    THEN [i \in DOMAIN d |-> IF d[i].Path = item.Path THEN item ELSE d[i]]
    ELSE Append(d, item)

RECURSIVE dict_build(_, _)
dict_build(d, files) ==
    IF files = <<>> THEN d
    ELSE dict_build(dict_set(d, Head(files)), Tail(files))

\* {item['Path']: item for item in files}
to_dict(files) == dict_build(<<>>, files)

dict_has(d, path) == \E i \in DOMAIN d : d[i].Path = path

\* Mutant of dict_get: the first value, whatever its key.
dict_get_first(d, path) == d[1]

dict_get(d, path) == d[CHOOSE i \in DOMAIN d : d[i].Path = path]

new_entry(item) ==
    [path |-> item.Path, size |-> item.Size, modified |-> item.ModTime]

changed_entry(drive_item, local_item) ==
    [path |-> drive_item.Path,
     old_size |-> local_item.Size,
     new_size |-> drive_item.Size,
     size_diff |-> drive_item.Size - local_item.Size,
     modified |-> drive_item.ModTime]

\* Mutant of is_changed: "and" for "or".
is_changed_both(drive_item, local_item) ==
    /\ drive_item.Size # local_item.Size
    /\ drive_item.ModTime # local_item.ModTime

is_changed(drive_item, local_item) ==
    \/ drive_item.Size # local_item.Size
    \/ drive_item.ModTime # local_item.ModTime

\* Mutant of drive_step: a changed file's size is added to total_new_size.
drive_step_sized(acc, drive_item, local_dict) ==
    IF ~dict_has(local_dict, drive_item.Path)
    THEN [acc EXCEPT !.new_files = Append(@, new_entry(drive_item)),
                     !.total_new_size = @ + drive_item.Size]
    ELSE LET local_item == dict_get(local_dict, drive_item.Path)
         IN IF is_changed(drive_item, local_item)
            THEN [acc EXCEPT !.changed_files =
                                Append(@, changed_entry(drive_item, local_item)),
                             !.total_new_size = @ + drive_item.Size]
            ELSE acc

\* One iteration of "for path, drive_item in drive_dict.items()".
drive_step(acc, drive_item, local_dict) ==
    IF ~dict_has(local_dict, drive_item.Path)
    THEN [acc EXCEPT !.new_files = Append(@, new_entry(drive_item)),
                     !.total_new_size = @ + drive_item.Size]
    ELSE LET local_item == dict_get(local_dict, drive_item.Path)
         IN IF is_changed(drive_item, local_item)
            THEN [acc EXCEPT !.changed_files =
                                Append(@, changed_entry(drive_item, local_item))]
            ELSE acc

RECURSIVE drive_loop(_, _, _)
drive_loop(acc, items, local_dict) ==
    IF items = <<>> THEN acc
    ELSE drive_loop(drive_step(acc, Head(items), local_dict), Tail(items), local_dict)

\* Mutant of local_step: the membership test is dropped.
local_step_all(acc, local_item, drive_dict) ==
    [acc EXCEPT !.deleted_files = Append(@, new_entry(local_item)),
                !.total_deleted_size = @ + local_item.Size]

\* One iteration of "for path, local_item in local_dict.items()".
local_step(acc, local_item, drive_dict) ==
    IF ~dict_has(drive_dict, local_item.Path)
    THEN [acc EXCEPT !.deleted_files = Append(@, new_entry(local_item)),
                     !.total_deleted_size = @ + local_item.Size]
    ELSE acc

RECURSIVE local_loop(_, _, _)
local_loop(acc, items, drive_dict) ==
    IF items = <<>> THEN acc
    ELSE local_loop(local_step(acc, Head(items), drive_dict), Tail(items), drive_dict)

empty_changes ==
    [new_files |-> <<>>, changed_files |-> <<>>, deleted_files |-> <<>>,
     total_new_size |-> 0, total_deleted_size |-> 0]

\* The dictionary scan_changes returns for two parsed listings.
compare(drive, local) ==
    LET drive_dict == to_dict(drive)
        local_dict == to_dict(local)
        a1 == drive_loop(empty_changes, drive_dict, local_dict)
    IN local_loop(a1, local_dict, drive_dict)

\* item[k] raises KeyError.
missing(item, k) == k \notin DOMAIN item

\* The key the record literal {'size': item['Size'], 'modified':
\* item['ModTime']} fails on, "" when it is built.
entry_raises(item) ==
    IF missing(item, "Size") THEN "Size"
    ELSE IF missing(item, "ModTime") THEN "ModTime"
    ELSE ""

\* The key the comparison of the two items and the changed record fail on:
\* "or" reads the ModTimes only when the sizes are equal, and the changed
\* record reads the ModTime of the drive item alone.
changed_raises(drive_item, local_item) ==
    IF missing(drive_item, "Size") \/ missing(local_item, "Size") THEN "Size"
    ELSE IF drive_item.Size # local_item.Size
    THEN IF missing(drive_item, "ModTime") THEN "ModTime" ELSE ""
    ELSE IF missing(drive_item, "ModTime") \/ missing(local_item, "ModTime")
    THEN "ModTime"
    ELSE ""

\* The KeyError of one iteration of the first loop, "" when it passes.
drive_step_raises(drive_item, local_dict) ==
    IF ~dict_has(local_dict, drive_item.Path)
    THEN entry_raises(drive_item)
    ELSE changed_raises(drive_item, dict_get(local_dict, drive_item.Path))

\* The KeyError of one iteration of the second loop.
local_step_raises(local_item, drive_dict) ==
    IF ~dict_has(drive_dict, local_item.Path)
    THEN entry_raises(local_item)
    ELSE ""

RECURSIVE drive_loop_raises(_, _)
drive_loop_raises(items, local_dict) ==
    IF items = <<>> THEN ""
    ELSE IF drive_step_raises(Head(items), local_dict) # ""
    THEN drive_step_raises(Head(items), local_dict)
    ELSE drive_loop_raises(Tail(items), local_dict)

RECURSIVE local_loop_raises(_, _)
local_loop_raises(items, drive_dict) ==
    IF items = <<>> THEN ""
    ELSE IF local_step_raises(Head(items), drive_dict) # ""
    THEN local_step_raises(Head(items), drive_dict)
    ELSE local_loop_raises(Tail(items), drive_dict)

\* The key of the KeyError that ends the comparison of two parsed listings,
\* "" when the comparison returns.
compare_raises(drive, local) ==
    IF drive_loop_raises(to_dict(drive), to_dict(local)) # ""
    THEN drive_loop_raises(to_dict(drive), to_dict(local))
    ELSE local_loop_raises(to_dict(local), to_dict(drive))

\* ------------------------------------------------------------------------
\* Events a menu action leaves in log
\* ------------------------------------------------------------------------
Ev(e, w, r) == [ev |-> e, what |-> w, res |-> r, mode |-> ""]

\* The process of a command was started, streamed or captured.
RunEv(cmd, r, show_output) ==
    [ev |-> "run", what |-> cmd, res |-> r,
     mode |-> IF show_output THEN "streamed" ELSE "captured"]

has(l, e, r) == \E i \in DOMAIN l : l[i].ev = e /\ l[i].res \in r

no_hist == [asked |-> FALSE, install_failed |-> FALSE, scanned |-> FALSE, ran |-> {}]

\* The summary once the events l of one more step are behind.
fold(h, l) ==
    [asked |-> h.asked \/ has(l, "ask_install", {"yes", "no", "intr"}),
     install_failed |-> h.install_failed
                        \/ has(l, "install", {"dl_fail", "ex_fail", "not_found"}),
     scanned |-> h.scanned \/ has(l, "scan", {"ok"}),
     ran |-> h.ran \cup {l[i].what : i \in {j \in DOMAIN l : l[j].ev = "run"}}]

\* ------------------------------------------------------------------------
\* Release asset of the host platform (main.py 129-160)
\* ------------------------------------------------------------------------
\* Platform strings are sequences of characters, so that lower() and
\* startswith() are computed and not looked up.
Upper == <<"A", "B", "C", "D", "E", "F", "G", "H", "I", "J", "K", "L", "M",
           "N", "O", "P", "Q", "R", "S", "T", "U", "V", "W", "X", "Y", "Z">>
Lower == <<"a", "b", "c", "d", "e", "f", "g", "h", "i", "j", "k", "l", "m",
           "n", "o", "p", "q", "r", "s", "t", "u", "v", "w", "x", "y", "z">>

\* The lower-case letter of every upper-case one.
LowerOf ==
    [c \in {Upper[i] : i \in DOMAIN Upper} |->
        Lower[CHOOSE i \in DOMAIN Upper : Upper[i] = c]]

lower_char(c) == IF c \in DOMAIN LowerOf THEN LowerOf[c] ELSE c

\* str.lower()
lower(s) == [i \in DOMAIN s |-> lower_char(s[i])]

\* str.startswith(prefix)
startswith(s, prefix) ==
    Len(s) >= Len(prefix) /\ SubSeq(s, 1, Len(prefix)) = prefix

\* The literals the code compares the lowered strings with.
windows == <<"w", "i", "n", "d", "o", "w", "s">>
darwin == <<"d", "a", "r", "w", "i", "n">>
linux == <<"l", "i", "n", "u", "x">>
amd64 == <<"a", "m", "d", "6", "4">>

\* Values of platform.system() and platform.machine().
Linux == <<"L", "i", "n", "u", "x">>
Darwin == <<"D", "a", "r", "w", "i", "n">>
Windows == <<"W", "i", "n", "d", "o", "w", "s">>
FreeBSD == <<"F", "r", "e", "e", "B", "S", "D">>
Systems == {Linux, Darwin, Windows, FreeBSD, <<>>}

x86_64 == <<"x", "8", "6", "_", "6", "4">>
AMD64 == <<"A", "M", "D", "6", "4">>
i386 == <<"i", "3", "8", "6">>
i686 == <<"i", "6", "8", "6">>
x86 == <<"x", "8", "6">>
arm64 == <<"a", "r", "m", "6", "4">>
ARM64 == <<"A", "R", "M", "6", "4">>
aarch64 == <<"a", "a", "r", "c", "h", "6", "4">>
armv7l == <<"a", "r", "m", "v", "7", "l">>
mips == <<"m", "i", "p", "s">>
Machines == {x86_64, AMD64, amd64, i386, i686, x86, arm64, ARM64, aarch64, armv7l,
             mips, <<>>}

\* The host of the menu machine.
Host == <<Linux, x86_64>>

\* "Determine architecture" (main.py 139-149).
arch_of(m) ==
    IF m \in {x86_64, amd64} THEN "amd64"
    ELSE IF m \in {i386, i686, x86} THEN "386"
    ELSE IF m \in {arm64, aarch64} THEN "arm64"
    ELSE IF startswith(m, <<"a", "r", "m">>) THEN "arm"
    ELSE "amd64"

base_url == "https://downloads.rclone.org/v1.68.2"

Asset(os, arch) ==
    [url |-> base_url \o "/rclone-v1.68.2-" \o os \o "-" \o arch \o ".zip",
     is_zip |-> TRUE]

\* The branch on system (main.py 153-160), s being system.lower().
asset_of(s, arch) ==
    IF s = windows THEN Asset("windows", arch)
    ELSE IF s = darwin THEN Asset("osx", arch)
    ELSE IF s = linux THEN Asset("linux", arch)
    ELSE Asset("linux", "amd64")

\* Mutant of get_rclone_download_url: an unknown system keeps the
\* architecture of the host.
get_rclone_download_url_arch(sys, mach) ==
    IF lower(sys) \in {windows, darwin, linux}
    THEN asset_of(lower(sys), arch_of(lower(mach)))
    ELSE Asset("linux", arch_of(lower(mach)))

\* get_rclone_download_url: (download_url, is_zip_file) for the host.
get_rclone_download_url(sys, mach) ==
    asset_of(lower(sys), arch_of(lower(mach)))

\* ------------------------------------------------------------------------
\* Binary locator (main.py 236-317)
\* ------------------------------------------------------------------------
Null == "null"
PathCmd == "rclone"
LocalPath == "rclone_bin/rclone"

\* What happens once the user has agreed to an installation.
InstallOutcomes == {"dl_fail", "ex_fail", "not_found", "ok"}

\* The answer to "download and install rclone now?" (Ctrl-C, no, or yes with
\* the outcome of the installation that follows).
FindInputs == {"intr", "no"} \cup InstallOutcomes

install_error(outcome) ==
    CASE outcome = "dl_fail" -> <<Ev("error", "DownloadFailure", "reported")>>
      [] outcome = "ex_fail" -> <<Ev("error", "ExtractionFailure", "reported")>>
      [] outcome = "not_found" -> <<Ev("error", "ExecutableNotFound", "reported")>>
      [] OTHER -> <<>>

\* install_rclone: download, extract, locate the executable.
install_rclone(outcome) ==
    [ret |-> IF outcome = "ok" THEN LocalPath ELSE Null,
     localBin |-> outcome = "ok",
     log |-> <<Ev("install", get_rclone_download_url(system, machine).url, outcome)>>
             \o install_error(outcome)]

\* find_rclone after install_rclone returned i (main.py 306-313).
installed(i, asked) ==
    [ret |-> i.ret, raised |-> FALSE, localBin |-> i.localBin, log |-> asked \o i.log]

\* Mutant of find_rclone: the local copy is preferred to the search path, and
\* a missing binary is downloaded without asking.
find_rclone_eager(inP, loc, inp) ==
    IF loc
    THEN [ret |-> LocalPath, raised |-> FALSE, localBin |-> loc,
          log |-> <<Ev("resolve", "local", LocalPath)>>]
    ELSE IF inP
    THEN [ret |-> PathCmd, raised |-> FALSE, localBin |-> loc,
          log |-> <<Ev("resolve", "path", PathCmd)>>]
    ELSE installed(install_rclone(IF inp \in InstallOutcomes THEN inp ELSE "ok"), <<>>)

\* find_rclone: search path, then rclone_bin/, then the offer to install.
find_rclone(inP, loc, inp) ==
    IF inP
    THEN [ret |-> PathCmd, raised |-> FALSE, localBin |-> loc,
          log |-> <<Ev("resolve", "path", PathCmd)>>]
    ELSE IF loc
    THEN [ret |-> LocalPath, raised |-> FALSE, localBin |-> loc,
          log |-> <<Ev("resolve", "local", LocalPath)>>]
    ELSE IF inp = "intr"
    THEN [ret |-> Null, raised |-> TRUE, localBin |-> loc,
          log |-> <<Ev("ask_install", "", "intr")>>]
    ELSE IF inp = "no"
    THEN [ret |-> Null, raised |-> FALSE, localBin |-> loc,
          log |-> <<Ev("ask_install", "", "no")>>]
    ELSE installed(install_rclone(inp), <<Ev("ask_install", "", "yes")>>)

\* The answers find_rclone can read: it prompts only when neither the search
\* path nor rclone_bin/ has the binary.
Answers(inP, loc) == IF inP \/ loc THEN {"no"} ELSE FindInputs

\* os.path.exists(rclone_path): "rclone" names no file of the working
\* directory, the installed copy exists while rclone_bin/ holds it.
path_exists(rclone_path, loc) == rclone_path = LocalPath /\ loc

\* ------------------------------------------------------------------------
\* Config store (main.py 324-349)
\* ------------------------------------------------------------------------
Destinations == {"backup"}
Sources == {"gdrive:"}

default_config == [source |-> "gdrive:", destination |-> "", rclone_path |-> Null]

Configs == [source : Sources, destination : Destinations \cup {""},
            rclone_path : {Null, PathCmd, LocalPath}]

\* load_config after find_rclone returned or raised f (main.py 337-341).
loaded(file, f) ==
    IF f.raised
    THEN [config |-> default_config, localBin |-> f.localBin,
          log |-> f.log \o <<Ev("swallowed", "KeyboardInterrupt", "")>>]
    ELSE [config |-> [file EXCEPT !.rclone_path = f.ret],
          localBin |-> f.localBin, log |-> f.log]

\* load_config: the stored object, its rclone_path resolved when unset; the
\* defaults when the file is absent or anything at all is raised on the way.
load_config(file, inP, loc, inp) ==
    IF file = None
    THEN [config |-> default_config, localBin |-> loc, log |-> <<>>]
    ELSE IF file.rclone_path = Null
    THEN loaded(file, find_rclone(inP, loc, inp))
    ELSE [config |-> file, localBin |-> loc, log |-> <<>>]

\* ------------------------------------------------------------------------
\* Command runner (main.py 356-403)
\* ------------------------------------------------------------------------
CommandTimeout == 300

\* How the subprocess behaves: "slow" runs longer than CommandTimeout,
\* "malformed" exits 0 with output that is no JSON listing.
Outcomes == {"ok", "malformed", "no_size", "no_modtime", "nonzero", "slow",
             "notfound", "spawnerr", "intr"}

\* What only a listing command can print: "no_size" and "no_modtime" are
\* JSON arrays whose objects lack that member.
ListingOutcomes == {"malformed", "no_size", "no_modtime"}

\* The listing with member k left out of every object.
without(listing, k) ==
    [i \in DOMAIN listing |->
        [f \in DOMAIN listing[i] \ {k} |-> listing[i][f]]]

Completed(rc, out, okjson) == [returncode |-> rc, stdout |-> out, parsable |-> okjson]

timeout_of(show_output) == IF show_output THEN 0 ELSE CommandTimeout

\* Mutant of subprocess_run: a command that outlives the timeout hands back
\* what it has written so far.
subprocess_run_partial(cmd, show_output, out, listing) ==
    CASE out = "ok" \/ (out = "slow" /\ timeout_of(show_output) = 0) ->
           [result |-> Completed(0, listing, TRUE), raised |-> "",
            log |-> <<RunEv(cmd, "ok", show_output)>>]
      [] out = "slow" ->
           [result |-> Completed(0, listing, TRUE), raised |-> "",
            log |-> <<RunEv(cmd, "timeout", show_output)>>]
      [] out = "malformed" ->
           [result |-> Completed(0, <<>>, FALSE), raised |-> "",
            log |-> <<RunEv(cmd, "ok", show_output)>>]
      [] out = "no_size" ->
           [result |-> Completed(0, without(listing, "Size"), TRUE), raised |-> "",
            log |-> <<RunEv(cmd, "ok", show_output)>>]
      [] out = "no_modtime" ->
           [result |-> Completed(0, without(listing, "ModTime"), TRUE), raised |-> "",
            log |-> <<RunEv(cmd, "ok", show_output)>>]
      [] out = "nonzero" ->
           [result |-> Completed(1, <<>>, TRUE), raised |-> "",
            log |-> <<RunEv(cmd, "nonzero", show_output)>>]
      [] out = "notfound" ->
           [result |-> None, raised |-> "",
            log |-> <<Ev("error", "BinaryNotFound", "reported")>>]
      [] out = "spawnerr" ->
           [result |-> None, raised |-> "",
            log |-> <<Ev("error", "SpawnError", "reported")>>]
      [] OTHER ->
           [result |-> None, raised |-> "KeyboardInterrupt",
            log |-> <<RunEv(cmd, "intr", show_output)>>]

\* subprocess.run inside the try of run_rclone_command: streamed without a
\* timeout, captured with timeout=300.
subprocess_run(cmd, show_output, out, listing) ==
    CASE out = "ok" \/ (out = "slow" /\ timeout_of(show_output) = 0) ->
           [result |-> Completed(0, listing, TRUE), raised |-> "",
            log |-> <<RunEv(cmd, "ok", show_output)>>]
      [] out = "malformed" ->
           [result |-> Completed(0, <<>>, FALSE), raised |-> "",
            log |-> <<RunEv(cmd, "ok", show_output)>>]
      [] out = "no_size" ->
           [result |-> Completed(0, without(listing, "Size"), TRUE), raised |-> "",
            log |-> <<RunEv(cmd, "ok", show_output)>>]
      [] out = "no_modtime" ->
           [result |-> Completed(0, without(listing, "ModTime"), TRUE), raised |-> "",
            log |-> <<RunEv(cmd, "ok", show_output)>>]
      [] out = "nonzero" ->
           [result |-> Completed(1, <<>>, TRUE), raised |-> "",
            log |-> <<RunEv(cmd, "nonzero", show_output)>>]
      [] out = "slow" ->
           [result |-> None, raised |-> "",
            log |-> <<RunEv(cmd, "timeout", show_output),
                      Ev("error", "CommandTimeout", "reported")>>]
      [] out = "notfound" ->
           [result |-> None, raised |-> "",
            log |-> <<Ev("error", "BinaryNotFound", "reported")>>]
      [] out = "spawnerr" ->
           [result |-> None, raised |-> "",
            log |-> <<Ev("error", "SpawnError", "reported")>>]
      [] OTHER ->
           [result |-> None, raised |-> "KeyboardInterrupt",
            log |-> <<RunEv(cmd, "intr", show_output)>>]

\* "not rclone_path or not os.path.exists(rclone_path)" for the loaded config.
needs_find(lc) ==
    lc.config.rclone_path = Null \/ ~path_exists(lc.config.rclone_path, lc.localBin)

\* run_rclone_command from "cmd = [rclone_path] + args" on: sp is what
\* subprocess.run did, file2 the config file as it now is.
ran(sp, file2, loc2, log1) ==
    [result |-> sp.result, raised |-> sp.raised, file |-> file2,
     localBin |-> loc2, log |-> log1 \o sp.log, found |-> TRUE]

\* run_rclone_command when the binary had to be searched: f is what
\* find_rclone returned or raised (main.py 373-377).
run_found(file, lc, f, werr, sp) ==
    IF f.raised
    THEN [result |-> None, raised |-> "KeyboardInterrupt", file |-> file,
          localBin |-> f.localBin, log |-> lc.log \o f.log, found |-> FALSE]
    ELSE IF f.ret = Null
    THEN [result |-> None, raised |-> "", file |-> file,
          localBin |-> f.localBin, log |-> lc.log \o f.log, found |-> FALSE]
    ELSE IF werr
    THEN [result |-> None, raised |-> "ConfigWriteError", file |-> file,
          localBin |-> f.localBin, found |-> TRUE,
          log |-> lc.log \o f.log \o <<Ev("error", "ConfigWriteError", "uncaught")>>]
    ELSE ran(sp, [lc.config EXCEPT !.rclone_path = f.ret], f.localBin,
             lc.log \o f.log)

\* run_rclone_command once load_config returned lc.
run_loaded(file, inP, lc, i2, werr, sp) ==
    IF needs_find(lc)
    THEN run_found(file, lc, find_rclone(inP, lc.localBin, i2), werr, sp)
    ELSE ran(sp, file, lc.localBin,
             lc.log \o <<Ev("resolve", "configured", lc.config.rclone_path)>>)

\* run_rclone_command(args, show_output): resolve the binary, store a newly
\* resolved path, run the command. i1 and i2 answer the install offers of
\* load_config and of find_rclone, werr makes save_config fail, out and
\* listing are what the process does and prints.
run_rclone_command(cmd, show_output, file, inP, loc, i1, i2, werr, out, listing) ==
    run_loaded(file, inP, load_config(file, inP, loc, i1), i2, werr,
               subprocess_run(cmd, show_output, out, listing))

\* not result or result.returncode != 0
failed(result) == result = None \/ result.returncode # 0

\* ------------------------------------------------------------------------
\* The menu machine (main.py 898-1005)
\* ------------------------------------------------------------------------
Choices == {"1", "2", "3", "4", "5", "6", "7", "other"}

Init ==
    /\ pc = "menu"
    /\ choice = ""
    /\ cfgFile \in {None} \cup Configs
    /\ system = Host[1]
    /\ machine = Host[2]
    /\ inPath \in BOOLEAN
    /\ localBin \in BOOLEAN
    /\ remote \in Contents
    /\ destExists \in BOOLEAN
    /\ dest_files = IF destExists THEN OldBackup ELSE <<>>
    /\ dest = ""
    /\ drive_files = <<>>
    /\ local_files = <<>>
    /\ changes = None
    /\ log = <<>>
    /\ hist = no_hist

\* Mutant of Unwind: one handler for everything that is raised.
Unwind_any(raised) == "exit1"

\* Where an exception raised inside a menu action ends: the handlers of
\* __main__ exit 0 on KeyboardInterrupt and 1 on any other exception.
Unwind(raised) == IF raised = "KeyboardInterrupt" THEN "exit0" ELSE "exit1"

\* Mutant of dispatch: choice 4 goes to the confirmation without a scan.
dispatch_no_scan(c, config) ==
    CASE c = "1" -> "configure_gdrive"
      [] c = "2" -> "configure_settings"
      [] c = "3" -> "scan_load"
      [] c = "4" -> IF config.destination = "" THEN "pause" ELSE "apply"
      [] c = "5" -> "check_load"
      [] c = "7" -> "exit0"
      [] OTHER -> "pause"

dispatch(c, config) ==
    CASE c = "1" -> "configure_gdrive"
      [] c = "2" -> "configure_settings"
      [] c = "3" -> "scan_load"
      [] c = "4" -> IF config.destination = "" THEN "pause" ELSE "scan_load"
      [] c = "5" -> "check_load"
      [] c = "7" -> "exit0"
      [] OTHER -> "pause"

\* main_menu, one turn of the loop up to the dispatch on the choice.
main_menu ==
    /\ pc = "menu"
    /\ \E inp \in Answers(inPath, localBin), c \in Choices \cup {"intr"} :
         \E lc \in {load_config(cfgFile, inPath, localBin, inp)} :
            /\ localBin' = lc.localBin
            /\ choice' = c
            /\ pc' = IF c = "intr" THEN "exit0" ELSE dispatch(c, lc.config)
            /\ log' = lc.log \o
                 (IF c = "4" /\ lc.config.destination = ""
                  THEN <<Ev("error", "NoDestination", "reported")>>
                  ELSE IF c = "other"
                  THEN <<Ev("error", "InvalidChoice", "reported")>>
                  ELSE IF c = "intr"
                  THEN <<Ev("input", "choice", "intr")>>
                  ELSE <<>>)
    /\ hist' = no_hist
    /\ dest' = ""
    /\ drive_files' = <<>>
    /\ local_files' = <<>>
    /\ UNCHANGED <<cfgFile, envVars, changes>>

\* configure_rclone_gdrive: hand over to "rclone config".
configure_rclone_gdrive ==
    /\ pc = "configure_gdrive"
    /\ hist' = fold(hist, log)
    /\ \E ans \in {"yes", "no", "intr"}, i1 \in Answers(inPath, localBin), i2 \in Answers(inPath, localBin),
          werr \in BOOLEAN, out \in Outcomes \ ListingOutcomes :
         \E r \in {run_rclone_command("config", TRUE, cfgFile, inPath, localBin,
                                     i1, i2, werr, out, <<>>)} :
            IF ans = "yes"
            THEN /\ pc' = IF r.raised = "" THEN "pause" ELSE Unwind(r.raised)
                 /\ cfgFile' = r.file
                 /\ localBin' = r.localBin
                 /\ log' = r.log
            ELSE /\ pc' = IF ans = "intr" THEN "exit0" ELSE "pause"
                 /\ log' = IF ans = "intr"
                           THEN <<Ev("input", "ready", "intr")>> ELSE <<>>
                 /\ UNCHANGED <<cfgFile, localBin>>
    /\ UNCHANGED <<choice, envVars, dest, scanVars>>

\* The config after the two prompts: an empty answer keeps the value.
entered(config, src, d) ==
    [config EXCEPT !.source = IF src # "" THEN src ELSE @,
                   !.destination = IF d # "" THEN d ELSE @]

\* configure_settings: ask for source and destination, store them.
configure_settings ==
    /\ pc = "configure_settings"
    /\ hist' = fold(hist, log)
    /\ \E inp \in Answers(inPath, localBin), src \in Sources \cup {""},
          d \in Destinations \cup {"", "intr"}, werr \in BOOLEAN :
         \E lc \in {load_config(cfgFile, inPath, localBin, inp)} :
            /\ localBin' = lc.localBin
            /\ IF d = "intr"
               THEN /\ pc' = "exit0"
                    /\ log' = lc.log \o <<Ev("input", "destination", "intr")>>
                    /\ UNCHANGED cfgFile
               ELSE IF entered(lc.config, src, d).destination = ""
               THEN /\ pc' = "pause"
                    /\ log' = lc.log \o
                                <<Ev("error", "NoDestination", "reported")>>
                    /\ UNCHANGED cfgFile
               ELSE IF werr
               THEN /\ pc' = "exit1"
                    /\ log' = lc.log \o
                                <<Ev("error", "ConfigWriteError", "uncaught")>>
                    /\ UNCHANGED cfgFile
               ELSE /\ pc' = "pause"
                    /\ log' = lc.log \o <<Ev("save", "config", "ok")>>
                    /\ cfgFile' = entered(lc.config, src, d)
    /\ UNCHANGED <<choice, envVars, dest, scanVars>>

\* scan_changes up to the destination check (main.py 523-535).
scan_load ==
    /\ pc = "scan_load"
    /\ hist' = fold(hist, log)
    /\ \E inp \in Answers(inPath, localBin) :
         \E lc \in {load_config(cfgFile, inPath, localBin, inp)} :
            /\ localBin' = lc.localBin
            /\ IF lc.config.destination = ""
               THEN /\ pc' = "pause"
                    /\ dest' = dest
                    /\ changes' = None
                    /\ log' = lc.log \o
                                <<Ev("error", "NoDestination", "reported"),
                                  Ev("scan", "", "none")>>
               ELSE /\ pc' = "scan_remote"
                    /\ dest' = lc.config.destination
                    /\ log' = lc.log
                    /\ UNCHANGED changes
    /\ UNCHANGED <<choice, cfgFile, envVars, drive_files, local_files>>

\* scan_changes step 1: list the source (main.py 537-555).
scan_remote ==
    /\ pc = "scan_remote"
    /\ hist' = fold(hist, log)
    /\ \E i1 \in Answers(inPath, localBin), i2 \in Answers(inPath, localBin), werr \in BOOLEAN, out \in Outcomes :
         \E r \in {run_rclone_command("lsjson_source", FALSE, cfgFile, inPath,
                                     localBin, i1, i2, werr, out, remote)} :
            /\ cfgFile' = r.file
            /\ localBin' = r.localBin
            /\ IF r.raised # ""
               THEN /\ pc' = Unwind(r.raised)
                    /\ log' = r.log
                    /\ UNCHANGED <<drive_files, changes>>
               ELSE IF failed(r.result)
               THEN /\ pc' = "pause"
                    /\ log' = r.log \o
                                <<Ev("error", "RemoteListingFailed", "reported"),
                                  Ev("scan", "", "none")>>
                    /\ changes' = None
                    /\ UNCHANGED drive_files
               ELSE IF ~r.result.parsable
               THEN /\ pc' = "exit1"
                    /\ log' = r.log \o
                                <<Ev("error", "MalformedListingError", "uncaught")>>
                    /\ UNCHANGED <<drive_files, changes>>
               ELSE /\ pc' = "scan_local"
                    /\ log' = r.log
                    /\ drive_files' = r.result.stdout
                    /\ UNCHANGED changes
    /\ UNCHANGED <<choice, envVars, dest, local_files>>

\* Mutant of scan_local: a listing that failed counts as the files the
\* destination holds.
scan_local_stale ==
    /\ pc = "scan_local"
    /\ hist' = fold(hist, log)
    /\ IF destExists
       THEN \E i1 \in Answers(inPath, localBin), i2 \in Answers(inPath, localBin), werr \in BOOLEAN,
               out \in Outcomes :
              \E r \in {run_rclone_command("lsjson_dest", FALSE, cfgFile, inPath,
                                          localBin, i1, i2, werr, out, dest_files)} :
                 /\ cfgFile' = r.file
                 /\ localBin' = r.localBin
                 /\ IF r.raised # ""
                    THEN /\ pc' = Unwind(r.raised)
                         /\ log' = r.log
                         /\ UNCHANGED local_files
                    ELSE IF failed(r.result)
                    THEN /\ pc' = "scan_compare"
                         /\ log' = r.log
                         /\ local_files' = dest_files
                    ELSE IF ~r.result.parsable
                    THEN /\ pc' = "exit1"
                         /\ log' = r.log \o
                                <<Ev("error", "MalformedListingError", "uncaught")>>
                         /\ UNCHANGED local_files
                    ELSE /\ pc' = "scan_compare"
                         /\ log' = r.log
                         /\ local_files' = r.result.stdout
       ELSE /\ pc' = "scan_compare"
            /\ local_files' = <<>>
            /\ log' = <<>>
            /\ UNCHANGED <<cfgFile, localBin>>
    /\ UNCHANGED <<choice, envVars, dest, drive_files, changes>>

\* scan_changes step 2: list the destination when it exists (main.py 557-576).
scan_local ==
    /\ pc = "scan_local"
    /\ hist' = fold(hist, log)
    /\ IF destExists
       THEN \E i1 \in Answers(inPath, localBin), i2 \in Answers(inPath, localBin), werr \in BOOLEAN,
               out \in Outcomes :
              \E r \in {run_rclone_command("lsjson_dest", FALSE, cfgFile, inPath,
                                          localBin, i1, i2, werr, out, dest_files)} :
                 /\ cfgFile' = r.file
                 /\ localBin' = r.localBin
                 /\ IF r.raised # ""
                    THEN /\ pc' = Unwind(r.raised)
                         /\ log' = r.log
                         /\ UNCHANGED local_files
                    ELSE IF failed(r.result)
                    THEN /\ pc' = "scan_compare"
                         /\ log' = r.log
                         /\ local_files' = <<>>
                    ELSE IF ~r.result.parsable
                    THEN /\ pc' = "exit1"
                         /\ log' = r.log \o
                                <<Ev("error", "MalformedListingError", "uncaught")>>
                         /\ UNCHANGED local_files
                    ELSE /\ pc' = "scan_compare"
                         /\ log' = r.log
                         /\ local_files' = r.result.stdout
       ELSE /\ pc' = "scan_compare"
            /\ local_files' = <<>>
            /\ log' = <<>>
            /\ UNCHANGED <<cfgFile, localBin>>
    /\ UNCHANGED <<choice, envVars, dest, drive_files, changes>>

\* Mutant of scan_compare: the scan copies what it finds into the destination.
scan_compare_mirror ==
    /\ pc = "scan_compare"
    /\ hist' = fold(hist, log)
    /\ IF compare_raises(drive_files, local_files) # ""
       THEN /\ pc' = "exit1"
            /\ log' = <<Ev("error", "KeyError", "uncaught")>>
            /\ UNCHANGED changes
       ELSE /\ changes' = compare(drive_files, local_files)
            /\ pc' = "display"
            /\ log' = <<Ev("scan", "", "ok")>>
    /\ dest_files' = drive_files
    /\ destExists' = TRUE
    /\ UNCHANGED <<choice, cfgFile, localBin, system, machine, inPath, remote,
                   dest, drive_files, local_files>>

\* scan_changes step 3, from "Comparing files..." to its return.
scan_compare ==
    /\ pc = "scan_compare"
    /\ hist' = fold(hist, log)
    /\ IF compare_raises(drive_files, local_files) # ""
       THEN /\ pc' = "exit1"
            /\ log' = <<Ev("error", "KeyError", "uncaught")>>
            /\ UNCHANGED changes
       ELSE /\ changes' = compare(drive_files, local_files)
            /\ pc' = "display"
            /\ log' = <<Ev("scan", "", "ok")>>
    /\ UNCHANGED <<choice, cfgFile, localBin, envVars, dest, drive_files,
                   local_files>>

total(c) == Len(c.new_files) + Len(c.changed_files) + Len(c.deleted_files)

\* display_changes and the branch main_menu takes on has_changes.
display_changes ==
    /\ pc = "display"
    /\ hist' = fold(hist, log)
    /\ IF total(changes) = 0
       THEN /\ pc' = "pause"
            /\ log' = <<Ev("display", "", "no_changes")>>
       ELSE \E ans \in {"", "n", "intr"} :
              /\ pc' = IF ans = "intr" THEN "exit0"
                       ELSE IF choice = "3" THEN "export" ELSE "apply"
              /\ log' = <<Ev("display", "", "has_changes")>> \o
                        (IF ans = "intr"
                         THEN <<Ev("input", "details", "intr")>> ELSE <<>>)
    /\ UNCHANGED <<choice, cfgFile, localBin, envVars, dest, scanVars>>

\* "Export report?" and export_changes.
export_changes ==
    /\ pc = "export"
    /\ hist' = fold(hist, log)
    /\ \E ans \in {"y", "n", "intr"}, werr \in BOOLEAN :
         IF ans = "y"
         THEN IF werr
              THEN /\ pc' = "exit1"
                   /\ log' = <<Ev("error", "ReportWriteError", "uncaught")>>
              ELSE /\ pc' = "pause"
                   /\ log' = <<Ev("save", "report", "ok")>>
         ELSE /\ pc' = IF ans = "intr" THEN "exit0" ELSE "pause"
              /\ log' = IF ans = "intr"
                        THEN <<Ev("input", "export", "intr")>> ELSE <<>>
    /\ UNCHANGED <<choice, cfgFile, localBin, envVars, dest, scanVars>>

\* What is typed at "Are you sure you want to continue? (yes/no)", stripped
\* and lowered; "intr" is Ctrl-C.
ConfirmAnswers == {"yes", "y", "no", "", "intr"}

\* Mutant of apply_changes: the answer is read and not looked at.
apply_changes_unasked ==
    /\ pc = "apply"
    /\ hist' = fold(hist, log)
    /\ \E inp \in Answers(inPath, localBin), ans \in ConfirmAnswers :
         \E lc \in {load_config(cfgFile, inPath, localBin, inp)} :
            /\ localBin' = lc.localBin
            /\ dest' = lc.config.destination
            /\ log' = lc.log \o <<Ev("confirm", "sync", ans)>>
            /\ pc' = IF ans = "intr" THEN "exit0" ELSE "sync"
    /\ UNCHANGED <<choice, cfgFile, envVars, scanVars>>

\* apply_changes up to the confirmation (main.py 802-818).
apply_changes ==
    /\ pc = "apply"
    /\ hist' = fold(hist, log)
    /\ \E inp \in Answers(inPath, localBin), ans \in ConfirmAnswers :
         \E lc \in {load_config(cfgFile, inPath, localBin, inp)} :
            /\ localBin' = lc.localBin
            /\ dest' = lc.config.destination
            /\ log' = lc.log \o <<Ev("confirm", "sync", ans)>>
            /\ pc' = IF ans = "intr" THEN "exit0"
                     ELSE IF ans \in {"yes", "y"} THEN "sync"
                     ELSE "pause"
    /\ UNCHANGED <<choice, cfgFile, envVars, scanVars>>

\* The process of the command was started.
spawned(r) == \E i \in DOMAIN r.log : r.log[i].ev = "run"

\* rclone sync has made the destination a mirror of the source: it was
\* started with a destination and ran to the end, or got that far (done)
\* before it failed or was interrupted.
mirrored(r, d, done) ==
    /\ spawned(r)
    /\ d # ""
    /\ (r.raised = "" /\ ~failed(r.result)) \/ done

\* apply_changes, the sync command and its report (main.py 820-850).
apply_sync ==
    /\ pc = "sync"
    /\ hist' = fold(hist, log)
    /\ \E i1 \in Answers(inPath, localBin), i2 \in Answers(inPath, localBin),
          werr \in BOOLEAN, out \in Outcomes \ ListingOutcomes, done \in BOOLEAN :
         \E r \in {run_rclone_command("sync", TRUE, cfgFile, inPath, localBin,
                                      i1, i2, werr, out, <<>>)} :
            /\ cfgFile' = r.file
            /\ localBin' = r.localBin
            /\ pc' = IF r.raised = "" THEN "pause" ELSE Unwind(r.raised)
            /\ log' = r.log
            /\ dest_files' = IF mirrored(r, dest, done) THEN remote ELSE dest_files
            /\ destExists' = IF mirrored(r, dest, done) THEN TRUE ELSE destExists
    /\ UNCHANGED <<choice, system, machine, inPath, remote, dest, scanVars>>

\* check_rclone up to the version probe (main.py 410-423): the same search
\* and save as in run_rclone_command, with no command run.
check_rclone ==
    /\ pc = "check_load"
    /\ hist' = fold(hist, log)
    /\ \E i1 \in Answers(inPath, localBin), i2 \in Answers(inPath, localBin),
          werr \in BOOLEAN :
         \E r \in {run_loaded(cfgFile, inPath,
                              load_config(cfgFile, inPath, localBin, i1), i2, werr,
                              [result |-> None, raised |-> "", log |-> <<>>])} :
            /\ cfgFile' = r.file
            /\ localBin' = r.localBin
            /\ log' = r.log
            /\ pc' = IF r.raised # "" THEN Unwind(r.raised)
                     ELSE IF r.found THEN "check_version" ELSE "pause"
    /\ UNCHANGED <<choice, envVars, dest, scanVars>>

\* check_rclone, "rclone version" (main.py 425-433).
check_version ==
    /\ pc = "check_version"
    /\ hist' = fold(hist, log)
    /\ \E i1 \in Answers(inPath, localBin), i2 \in Answers(inPath, localBin), werr \in BOOLEAN,
          out \in Outcomes \ ListingOutcomes :
         \E r \in {run_rclone_command("version", FALSE, cfgFile, inPath, localBin,
                                     i1, i2, werr, out, <<>>)} :
            /\ cfgFile' = r.file
            /\ localBin' = r.localBin
            /\ IF r.raised # ""
               THEN /\ pc' = Unwind(r.raised)
                    /\ log' = r.log
               ELSE IF failed(r.result)
               THEN /\ pc' = "pause"
                    /\ log' = r.log \o
                                <<Ev("error", "NotWorking", "reported")>>
               ELSE /\ pc' = "check_remotes"
                    /\ log' = r.log
    /\ UNCHANGED <<choice, envVars, dest, scanVars>>

\* check_rclone, "rclone listremotes" (main.py 435-444).
check_remotes ==
    /\ pc = "check_remotes"
    /\ hist' = fold(hist, log)
    /\ \E i1 \in Answers(inPath, localBin), i2 \in Answers(inPath, localBin), werr \in BOOLEAN,
          out \in Outcomes \ ListingOutcomes :
         \E r \in {run_rclone_command("listremotes", FALSE, cfgFile, inPath,
                                     localBin, i1, i2, werr, out, <<>>)} :
            /\ cfgFile' = r.file
            /\ localBin' = r.localBin
            /\ pc' = IF r.raised = "" THEN "pause" ELSE Unwind(r.raised)
            /\ log' = r.log
    /\ UNCHANGED <<choice, envVars, dest, scanVars>>

\* input("Press Enter to continue...") at the end of a menu action.
press_enter ==
    /\ pc = "pause"
    /\ hist' = fold(hist, log)
    /\ \E key \in {"enter", "intr"} :
         /\ pc' = IF key = "intr" THEN "exit0" ELSE "menu"
         /\ log' = IF key = "intr"
                   THEN <<Ev("input", "continue", "intr")>> ELSE <<>>
    /\ UNCHANGED <<choice, cfgFile, localBin, envVars, dest, scanVars>>

\* Between two menu actions rclone is added to or removed from the search
\* path, or the installed copy is deleted.
env_path ==
    /\ pc = "menu"
    /\ inPath' = ~inPath
    /\ UNCHANGED <<pc, choice, cfgFile, localBin, system, machine, remote,
                   dest_files, destExists, dest, scanVars, log, hist>>

env_uninstall ==
    /\ pc = "menu"
    /\ localBin
    /\ localBin' = FALSE
    /\ UNCHANGED <<pc, choice, cfgFile, envVars, dest, scanVars, log, hist>>

Next ==
    \/ main_menu
    \/ configure_rclone_gdrive
    \/ configure_settings
    \/ scan_load
    \/ scan_remote
    \/ scan_local
    \/ scan_compare
    \/ display_changes
    \/ export_changes
    \/ apply_changes
    \/ apply_sync
    \/ check_rclone
    \/ check_version
    \/ check_remotes
    \/ press_enter
    \/ env_path
    \/ env_uninstall

Spec == Init /\ [][Next]_vars

\* ------------------------------------------------------------------------
\* The classifier on its own: every pair of listings, compared once
\* ------------------------------------------------------------------------
InitClassify ==
    /\ pc = "scan_compare"
    /\ choice = "3"
    /\ cfgFile = [source |-> "gdrive:", destination |-> "backup", rclone_path |-> "rclone"]
    /\ system = Host[1]
    /\ machine = Host[2]
    /\ inPath = TRUE
    /\ localBin = FALSE
    /\ drive_files \in Listings
    /\ local_files \in Listings
    /\ remote = drive_files
    /\ dest_files = local_files
    /\ destExists = TRUE
    /\ dest = "backup"
    /\ changes = None
    /\ log = <<>>
    /\ hist = no_hist

NextClassify == scan_compare

SpecClassify == InitClassify /\ [][NextClassify]_vars

\* ------------------------------------------------------------------------
\* Properties of the classifier
\* ------------------------------------------------------------------------
\* keys(R) and R[path] of a listing, read off the lsjson array itself.
Keys(files) == {files[i].Path : i \in DOMAIN files}

LastOf(files, p) ==
    files[CHOOSE i \in DOMAIN files :
            /\ files[i].Path = p
            /\ \A j \in DOMAIN files : files[j].Path = p => j <= i]

PathsOf(entries) == {entries[i].path : i \in DOMAIN entries}

NoRepeat(entries) == Cardinality(PathsOf(entries)) = Len(entries)

RECURSIVE SumSizes(_)
SumSizes(entries) ==
    IF entries = <<>> THEN 0 ELSE Head(entries).size + SumSizes(Tail(entries))

\* A scan has returned a ChangeSet for drive_files and local_files.
Scanned == pc = "display" /\ changes # None

\* C1: the classification partitions the paths: new = keys(R) \ keys(L),
\* deleted = keys(L) \ keys(R), changed lies within keys(R) /\ keys(L), each
\* path is recorded at most once, and the three categories are pairwise
\* disjoint (the paths of R in none of them are the unchanged ones).
C1_Partition ==
    Scanned =>
        LET N == PathsOf(changes.new_files)
            C == PathsOf(changes.changed_files)
            D == PathsOf(changes.deleted_files)
            R == Keys(drive_files)
            L == Keys(local_files)
        IN /\ N = R \ L
           /\ D = L \ R
           /\ C \subseteq R \cap L
           /\ N \cap C = {} /\ N \cap D = {} /\ C \cap D = {}
           /\ NoRepeat(changes.new_files)
           /\ NoRepeat(changes.changed_files)
           /\ NoRepeat(changes.deleted_files)
           /\ \A p \in L : p \in D \/ p \in R

C1_Witness ==
    /\ Scanned
    /\ Len(changes.new_files) = 1
    /\ Len(changes.changed_files) = 1
    /\ Len(drive_files) = 2

\* C2: total_new_size is the sum of the sizes in new, total_deleted_size the
\* sum of the sizes in deleted; changed entries count in neither.
C2_Totals ==
    Scanned =>
        /\ changes.total_new_size = SumSizes(changes.new_files)
        /\ changes.total_deleted_size = SumSizes(changes.deleted_files)

C2_Witness ==
    /\ Scanned
    /\ Len(changes.changed_files) = 1
    /\ Len(changes.new_files) = 1
    /\ changes.total_new_size = 20
    /\ Len(changes.deleted_files) = 0

\* C3: a path in both listings is in changed exactly when size or modified
\* differ, with old_size the local size, new_size the remote size, size_diff
\* their difference and modified the remote's; otherwise it is in no category.
C3_Changed ==
    Scanned =>
        \A p \in Keys(drive_files) \cap Keys(local_files) :
            LET r == LastOf(drive_files, p)
                l == LastOf(local_files, p)
                differs == r.Size # l.Size \/ r.ModTime # l.ModTime
            IN /\ differs <=> p \in PathsOf(changes.changed_files)
               /\ differs =>
                    \E i \in DOMAIN changes.changed_files :
                        changes.changed_files[i] =
                            [path |-> p, old_size |-> l.Size, new_size |-> r.Size,
                             size_diff |-> r.Size - l.Size, modified |-> r.ModTime]
               /\ ~differs =>
                    /\ p \notin PathsOf(changes.new_files)
                    /\ p \notin PathsOf(changes.deleted_files)

\* The spec's scenario: a.txt 10/T1 locally, 20/T2 remotely.
C3_Witness ==
    /\ Scanned
    /\ drive_files = <<[Path |-> "a.txt", Size |-> 20, ModTime |-> "T2"]>>
    /\ local_files = <<[Path |-> "a.txt", Size |-> 10, ModTime |-> "T1"]>>
    /\ changes.changed_files =
         <<[path |-> "a.txt", old_size |-> 10, new_size |-> 20,
            size_diff |-> 10, modified |-> "T2"]>>

SameListing(a, b) ==
    /\ Keys(a) = Keys(b)
    /\ \A p \in Keys(a) : LastOf(a, p) = LastOf(b, p)

\* C4: a listing classified against itself gives no new, changed or deleted
\* entry and both totals 0.
C4_Idempotent ==
    (Scanned /\ SameListing(drive_files, local_files)) => changes = empty_changes

C4_Witness ==
    /\ Scanned
    /\ drive_files = local_files
    /\ Keys(drive_files) = Paths
    /\ changes = empty_changes

\* ------------------------------------------------------------------------
\* Properties of the menu machine
\* ------------------------------------------------------------------------
ScanPcs == {"scan_load", "scan_remote", "scan_local", "scan_compare"}

RunsOf(l) == {i \in DOMAIN l : l[i].ev = "run"}

\* C5: a step of scan_changes runs no command but the two lsjson listings
\* and leaves the destination as it is; the destination changes only in the
\* step of apply_changes that runs the sync command.
C5_ScanReadOnly ==
    [][/\ pc \in ScanPcs =>
            /\ dest_files' = dest_files
            /\ destExists' = destExists
            /\ \A i \in RunsOf(log') :
                  log'[i].what \in {"lsjson_source", "lsjson_dest"}
       /\ (dest_files' # dest_files \/ destExists' # destExists) =>
            /\ pc = "sync"
            /\ \E i \in RunsOf(log') : log'[i].what = "sync"]_vars

C5_Witness ==
    /\ pc = "display"
    /\ hist.ran = {"lsjson_source", "lsjson_dest"}
    /\ total(changes) > 0
    /\ dest_files = OldBackup

\* C6: the confirmation prompt of apply_changes, the wait for the sync and
\* the sync command come only after a scan completed in the same menu action,
\* and the ChangeSet at hand is the one of that scan.
C6_ScanBeforeConfirm ==
    (\/ has(log, "confirm", ConfirmAnswers)
     \/ pc = "sync"
     \/ \E i \in RunsOf(log) : log[i].what = "sync")
    => /\ hist.scanned
       /\ changes = compare(drive_files, local_files)

C6_Witness ==
    /\ pc = "sync"
    /\ has(log, "confirm", {"yes"})
    /\ hist.scanned
    /\ "lsjson_source" \in hist.ran

\* C7: a listing or sync command is run only with a non-empty destination in
\* the configuration loaded by the function that runs it.
C7_DestinationSet ==
    \A i \in RunsOf(log) :
        log[i].what \in {"lsjson_source", "lsjson_dest", "sync"} => dest # ""

Taxonomy ==
    {"BinaryNotFound", "SpawnError", "CommandTimeout", "DownloadFailure",
     "ExtractionFailure", "MalformedListingError", "ConfigWriteError",
     "ReportWriteError"}

\* C8: every error of the taxonomy is caught and reported inside its menu
\* action, and the program does not end with exit code 1 because of it.
C8_ErrorsRecovered ==
    \A i \in DOMAIN log :
        (log[i].ev = "error" /\ log[i].what \in Taxonomy)
        => /\ log[i].res = "reported"
           /\ pc # "exit1"

\* C9: a captured command that outlives the timeout yields no result: after
\* a timed-out source listing the scan has returned None, after a timed-out
\* destination listing the local listing is empty; sync and config, and only
\* they, run streamed, and a streamed command never times out.
C9_TimeoutNoPartial ==
    \A i \in RunsOf(log) :
        /\ (log[i].mode = "streamed") <=> (log[i].what \in {"sync", "config"})
        /\ log[i].mode = "streamed" => log[i].res # "timeout"
        /\ (log[i].res = "timeout" /\ log[i].what = "lsjson_source")
             => (pc = "pause" /\ changes = None /\ drive_files = <<>>)
        /\ (log[i].res = "timeout" /\ log[i].what = "lsjson_dest")
             => (pc = "scan_compare" /\ local_files = <<>>)
        /\ (log[i].res = "timeout" /\ log[i].what \in {"version", "listremotes"})
             => pc = "pause"

C9_Witness ==
    /\ pc = "scan_compare"
    /\ \E i \in RunsOf(log) : log[i].what = "lsjson_dest" /\ log[i].res = "timeout"
    /\ dest_files # <<>>
    /\ local_files = <<>>
    /\ drive_files # <<>>

\* The configured path exists: step 1 of the locator succeeds.
ConfiguredExists == cfgFile # None /\ path_exists(cfgFile.rclone_path, localBin)

\* C10: in every step the binary is taken from the configured path only if it
\* exists, from the search path only if the configured path does not exist,
\* from rclone_bin/ only if the search path has none either, and a download
\* is started only after all three failed and the user answered yes to the
\* offer made just before.
C10_LocatorPriority ==
    [][\A i \in DOMAIN log' :
        /\ (log'[i].ev = "resolve" /\ log'[i].what = "configured")
             => path_exists(log'[i].res, localBin')
        /\ (log'[i].ev = "resolve" /\ log'[i].what = "path")
             => (inPath /\ ~ConfiguredExists)
        /\ (log'[i].ev = "resolve" /\ log'[i].what = "local")
             => (~inPath /\ localBin /\ ~ConfiguredExists)
        /\ log'[i].ev = "ask_install"
             => (~inPath /\ ~localBin /\ ~ConfiguredExists)
        /\ log'[i].ev = "install"
             => /\ ~inPath /\ ~localBin /\ ~ConfiguredExists
                /\ i > 1
                /\ log'[i - 1] = Ev("ask_install", "", "yes")]_vars

C10_Witness ==
    /\ has(log, "install", {"ok"})
    /\ has(log, "ask_install", {"yes"})
    /\ localBin
    /\ ~inPath

\* ------------------------------------------------------------------------
\* The locator on every host: rclone is missing and check_rclone looks for it
\* ------------------------------------------------------------------------
InitAsset ==
    /\ pc = "check_load"
    /\ choice = "5"
    /\ cfgFile \in {None, [source |-> "gdrive:", destination |-> "backup",
                           rclone_path |-> Null]}
    /\ system \in Systems
    /\ machine \in Machines
    /\ inPath = FALSE
    /\ localBin = FALSE
    /\ remote = <<>>
    /\ destExists = FALSE
    /\ dest_files = <<>>
    /\ dest = ""
    /\ drive_files = <<>>
    /\ local_files = <<>>
    /\ changes = None
    /\ log = <<>>
    /\ hist = no_hist

NextAsset == check_rclone

SpecAsset == InitAsset /\ [][NextAsset]_vars

\* The systems and machines the download page has an asset for, and the
\* names it gives them.
KnownSystems == {Linux, Darwin, Windows}
OsName(sys) ==
    CASE sys = Windows -> "windows"
      [] sys = Darwin -> "osx"
      [] OTHER -> "linux"

ArchName(mach) ==
    CASE mach \in {x86_64, AMD64, amd64} -> "amd64"
      [] mach \in {i386, i686, x86} -> "386"
      [] mach \in {arm64, ARM64, aarch64} -> "arm64"
      [] mach = armv7l -> "arm"
      [] OTHER -> "amd64"

AssetUrl(os, arch) ==
    "https://downloads.rclone.org/v1.68.2/rclone-v1.68.2-" \o os \o "-" \o arch
        \o ".zip"

Downloads(l) == {i \in DOMAIN l : l[i].ev = "install"}

\* C11: every installation downloads exactly one asset, fixed by the host's
\* system and machine: the asset of that system and architecture when the
\* system is known (an unknown machine counting as amd64), and the
\* linux/amd64 asset when the system is unknown, whatever the machine.
C11_AssetFallback ==
    \A i \in Downloads(log) :
        log[i].what = IF system \in KnownSystems
                      THEN AssetUrl(OsName(system), ArchName(machine))
                      ELSE AssetUrl("linux", "amd64")

\* An installation on FreeBSD/arm64 took the linux/amd64 asset.
C11_Witness ==
    /\ system = FreeBSD
    /\ machine = arm64
    /\ \E i \in Downloads(log) :
         log[i].what = AssetUrl("linux", "amd64")

\* ------------------------------------------------------------------------
\* Installation failures and repeated attempts
\* ------------------------------------------------------------------------
InstallFailures == {"dl_fail", "ex_fail", "not_found"}

\* C12: once an installation has failed (download, extraction, executable
\* not found) the call that needed the binary gives up: no rclone command
\* is started after the failure.
C12_InstallFailureAborts ==
    \A i \in Downloads(log) :
        log[i].res \in InstallFailures => \A j \in RunsOf(log) : j < i

Asks(l) == {i \in DOMAIN l : l[i].ev = "ask_install"}

\* C14: nothing is tried twice in one menu action: the offer to install is
\* made at most once, at most one download is started, and no command that
\* ran in an earlier step of the action is run again.
C14_NoRetry ==
    /\ Cardinality(Asks(log)) <= 1
    /\ Cardinality(Downloads(log)) <= 1
    /\ \A i \in RunsOf(log) : log[i].what \notin hist.ran

\* ------------------------------------------------------------------------
\* Termination
\* ------------------------------------------------------------------------
\* What the last thing a step did has raised out of main_menu: the
\* KeyboardInterrupt of an interrupted prompt or command, or the error that
\* nothing caught.
Cause(l) ==
    IF l = <<>> THEN ""
    ELSE IF l[Len(l)].res = "intr" THEN "KeyboardInterrupt"
    ELSE IF l[Len(l)].ev = "error" /\ l[Len(l)].res = "uncaught" THEN l[Len(l)].what
    ELSE ""

WellFormed(files) ==
    \A i \in DOMAIN files : DOMAIN files[i] = {"Path", "Size", "ModTime"}

\* C15: a listing with an object that lacks Size or ModTime is turned down
\* before it is compared: no scan returns a ChangeSet made from one, and
\* what is raised is the MalformedListingError, never a KeyError out of the
\* comparison.
C15_MalformedRejected ==
    /\ has(log, "scan", {"ok"}) => WellFormed(drive_files) /\ WellFormed(local_files)
    /\ \A i \in DOMAIN log : log[i].ev = "error" => log[i].what # "KeyError"

\* ------------------------------------------------------------------------
\* The guard of the sync command
\* ------------------------------------------------------------------------
SyncRuns(l) == {i \in RunsOf(l) : l[i].what = "sync"}

\* C16: a step starts "rclone sync" only from the confirmation of choice 4,
\* answered yes or y, after a scan of the same menu action that returned a
\* ChangeSet with at least one entry; a failed scan, a scan without changes
\* and any other answer lead to the menu's pause without a sync.
C16_SyncGuarded ==
    [][/\ SyncRuns(log') # {} =>
            /\ choice = "4"
            /\ has(log, "confirm", {"yes", "y"})
            /\ hist.scanned
            /\ changes # None
            /\ total(changes) > 0
       /\ (\/ has(log', "scan", {"none"})
           \/ has(log', "display", {"no_changes"})
           \/ has(log', "confirm", {"no", ""}))
          => pc' = "pause" /\ SyncRuns(log') = {}]_vars

\* A sync was started in choice 4 after a scan that found one changed file.
C16_Witness ==
    /\ SyncRuns(log) # {}
    /\ choice = "4"
    /\ changes # None
    /\ Len(changes.changed_files) = 1
    /\ hist.scanned

\* ------------------------------------------------------------------------
\* Scans whose listing commands fail
\* ------------------------------------------------------------------------
\* The command listing the source did not end with exit code 0.
RemoteFailed(l) ==
    \/ \E i \in RunsOf(l) :
          l[i].what = "lsjson_source" /\ l[i].res \in {"nonzero", "timeout"}
    \/ \E i \in DOMAIN l :
          l[i].ev = "error" /\ l[i].what \in {"BinaryNotFound", "SpawnError"}

\* No listing of the destination came back: the directory is missing, or the
\* command was not started, timed out or exited non-zero.
LocalUnlisted(l) ==
    ~\E i \in RunsOf(l) : l[i].what = "lsjson_dest" /\ l[i].res = "ok"

DestRuns(l) == {i \in RunsOf(l) : l[i].what = "lsjson_dest"}

RECURSIVE SumOfPaths(_, _)
SumOfPaths(files, ps) ==
    IF ps = {} THEN 0
    ELSE SumOfPaths(files, ps \ {CHOOSE p \in ps : TRUE})
         + LastOf(files, CHOOSE p \in ps : TRUE).Size

====
